---- MODULE Spec2Model ----
(***************************************************************************)
(* FaissIndexHNSWCagraBuilder: construction from a parameter mapping,      *)
(* conversion of a GPU build output into a CPU build output, and writing   *)
(* of the CPU build output to a file.                                      *)
(*                                                                         *)
(* Objects are named by strings ("gpu_index", "cpu_index", "index_id_map") *)
(* and the Python value None by "None".  Every statement of the two        *)
(* conversion bodies and of write_cpu_index is one step; a call into the   *)
(* faiss library or into a build output either completes or raises one of  *)
(* ExcTypes.                                                               *)
(***************************************************************************)
EXTENDS Integers, Sequences, FiniteSets, TLC

VARIABLES
    params,                        \* argument of from_dict
    cpu_index_output_file_path,    \* argument of write_cpu_index
    self,                          \* the builder from_dict returns
    construct_error,               \* exception from_dict propagates
    pc,                            \* position of the pipeline
    faiss_gpu_build_index_output,  \* the GPU build output handed to convert
    wrapper,                       \* the IndexIDMap object (heap)
    cpu_index,                     \* the CPU index object (heap)
    local_cpu_index,               \* local variable cpu_index of a body
    index_id_map,                  \* local variable index_id_map of a body
    cpu_build_index_output,        \* value convert_gpu_to_cpu_index returns
    gpu_cleanup_calls,             \* calls of faiss_gpu_build_index_output.cleanup()
    cpu_cleanup_calls,             \* calls of cpu_build_index_output.cleanup()
    convert_error,                 \* exception convert_gpu_to_cpu_index propagates
    convert_raised,                \* what a try body of convert raised ("None": nothing)
    write_error,                   \* exception write_cpu_index propagates
    writer_raised,                 \* what the faiss writer raised ("None": nothing)
    cpu_cleanup_raised,            \* what cpu_build_index_output.cleanup() raised
    file,                          \* the file at cpu_index_output_file_path
    events                         \* calls made so far, in order

vars == <<params, cpu_index_output_file_path, self, construct_error, pc,
          faiss_gpu_build_index_output, wrapper, cpu_index, local_cpu_index,
          index_id_map, cpu_build_index_output, gpu_cleanup_calls,
          cpu_cleanup_calls, convert_error, convert_raised, write_error,
          writer_raised, cpu_cleanup_raised, file, events>>

----------------------------------------------------------------------------
(* Bounds and input domains *)

MaxEf == 2

DefaultEfSearch == 100

DefaultEfConstruction == 100

EfValues == (1..MaxEf) \cup {DefaultEfSearch, DefaultEfConstruction}

DataType == {"FLOAT", "BINARY"}

FieldNames == {"ef_search", "ef_construction", "base_level_only", "vector_dtype"}

\* A key no field of the dataclass has.
UnknownKey == "unknown_key"

Keys == FieldNames \cup {UnknownKey}

\* Exceptions a library call can raise; the first two are IOError instances.
ExcTypes == {"IOError", "FileNotFoundError", "RuntimeError"}

Paths == {"/tmp/index.faiss", "/nonexistent/index.faiss"}

Writable(p) == p = "/tmp/index.faiss"

\* The dataset ids the IndexIDMap carries.
WrapperIds == <<1, 2, 3>>

----------------------------------------------------------------------------
(* from_dict *)

\* A mapping is its key set and the values at the keys; the value record
\* holds a filler (0, FALSE, "FLOAT") at a key that is absent.
Mappings ==
    { [isNone |-> FALSE, keys |-> K,
       vals |-> [ef_search |-> s, ef_construction |-> c,
                 base_level_only |-> b, vector_dtype |-> d]] :
        K \in SUBSET Keys,
        s \in EfValues \cup {0}, c \in EfValues \cup {0},
        b \in BOOLEAN, d \in DataType }

WellFormed(m) ==
    /\ ("ef_search" \in m.keys) = (m.vals.ef_search # 0)
    /\ ("ef_construction" \in m.keys) = (m.vals.ef_construction # 0)
    /\ ("base_level_only" \notin m.keys) => (m.vals.base_level_only = FALSE)
    /\ ("vector_dtype" \notin m.keys) => (m.vals.vector_dtype = "FLOAT")

NoneParams ==
    [isNone |-> TRUE, keys |-> {},
     vals |-> [ef_search |-> 0, ef_construction |-> 0,
               base_level_only |-> FALSE, vector_dtype |-> "FLOAT"]]

ParamInputs == {NoneParams} \cup { m \in Mappings : WellFormed(m) }

DefaultBuilderMutant ==
    [ef_search |-> DefaultEfSearch, ef_construction |-> DefaultEfConstruction,
     base_level_only |-> FALSE, vector_dtype |-> "FLOAT"]

\* cls(): the dataclass field defaults.
DefaultBuilder ==
    [ef_search |-> DefaultEfSearch, ef_construction |-> DefaultEfConstruction,
     base_level_only |-> TRUE, vector_dtype |-> "FLOAT"]

\* `not params`: None and the empty mapping are falsy.
Falsy(p) == p.isNone \/ p.keys = {}

\* cls(**params) with every key a field: a field takes the keyword argument
\* when given and its default otherwise.
KeywordInit(p) ==
    [ef_search |-> IF "ef_search" \in p.keys
                   THEN p.vals.ef_search ELSE DefaultBuilder.ef_search,
     ef_construction |-> IF "ef_construction" \in p.keys
                         THEN p.vals.ef_construction
                         ELSE DefaultBuilder.ef_construction,
     base_level_only |-> IF "base_level_only" \in p.keys
                         THEN p.vals.base_level_only
                         ELSE DefaultBuilder.base_level_only,
     vector_dtype |-> IF "vector_dtype" \in p.keys
                      THEN p.vals.vector_dtype
                      ELSE DefaultBuilder.vector_dtype]

AcceptsKeywordsMutant(p) == TRUE

\* The generated __init__ raises TypeError on an unexpected keyword.
AcceptsKeywords(p) == p.keys \subseteq FieldNames


\* from_dict(params): ok with the builder, or the TypeError of __init__.
from_dict(p) ==
    IF Falsy(p)
    THEN [ok |-> TRUE, value |-> DefaultBuilder]
    ELSE IF AcceptsKeywords(p)
         THEN [ok |-> TRUE, value |-> KeywordInit(p)]
         ELSE [ok |-> FALSE, value |-> DefaultBuilder]

----------------------------------------------------------------------------
(* State *)

NoBuilder ==
    [ef_search |-> 0, ef_construction |-> 0,
     base_level_only |-> FALSE, vector_dtype |-> "None"]

NoCpuIndex ==
    [type |-> "None", efConstruction |-> 0, efSearch |-> 0,
     base_level_only |-> FALSE, copied |-> FALSE]

NoError == [raised |-> FALSE, type |-> "None", message |-> "None", cause |-> "None"]

NoOutput == [cpu_index |-> "None", index_id_map |-> "None"]

NoFile == [written |-> FALSE, format |-> "None", index |-> "None", ids |-> <<>>]

inputVars == <<params, cpu_index_output_file_path>>

builderVars == <<self, construct_error>>

gpuVars == <<faiss_gpu_build_index_output, wrapper, gpu_cleanup_calls>>

writeVars == <<cpu_cleanup_calls, write_error, writer_raised, cpu_cleanup_raised,
              file>>

Init ==
    /\ params \in ParamInputs
    /\ cpu_index_output_file_path \in Paths
    /\ self = NoBuilder
    /\ construct_error = "None"
    /\ pc = "from_dict"
    /\ faiss_gpu_build_index_output =
           [gpu_index |-> "gpu_index", index_id_map |-> "index_id_map",
            released |-> FALSE]
    /\ wrapper = [index |-> "gpu_index", ids |-> WrapperIds, released |-> FALSE]
    /\ cpu_index = NoCpuIndex
    /\ local_cpu_index = "None"
    /\ index_id_map = "None"
    /\ cpu_build_index_output = NoOutput
    /\ gpu_cleanup_calls = 0
    /\ cpu_cleanup_calls = 0
    /\ convert_error = NoError
    /\ write_error = NoError
    /\ convert_raised = "None"
    /\ writer_raised = "None"
    /\ cpu_cleanup_raised = "None"
    /\ file = NoFile
    /\ events = <<>>

----------------------------------------------------------------------------
(* Construction *)

FromDict ==
    /\ pc = "from_dict"
    /\ IF from_dict(params).ok
       THEN /\ self' = from_dict(params).value
            /\ pc' = "convert"
            /\ UNCHANGED construct_error
       ELSE /\ construct_error' = "TypeError"
            /\ pc' = "construct_raised"
            /\ UNCHANGED self
    /\ UNCHANGED <<inputVars, gpuVars, writeVars, cpu_index, local_cpu_index,
                   index_id_map, cpu_build_index_output, convert_error, convert_raised, events>>

----------------------------------------------------------------------------
(* convert_gpu_to_cpu_index *)

\* `self.vector_dtype != DataType.BINARY` of convert_gpu_to_cpu_index
UsesStandardIndex(b) == b.vector_dtype # "BINARY"

Dispatch ==
    /\ pc = "convert"
    /\ pc' = IF UsesStandardIndex(self) THEN "F64" ELSE "B101"
    /\ UNCHANGED <<inputVars, builderVars, gpuVars, writeVars, cpu_index,
                   local_cpu_index, index_id_map, cpu_build_index_output,
                   convert_error, convert_raised, events>>

ConversionMessage == "Failed to convert GPU index to CPU index"

ConvertExceptMutant(e) ==
    /\ pc' = "convert_returned"
    /\ convert_error' = NoError
    /\ cpu_build_index_output' =
           [cpu_index |-> local_cpu_index, index_id_map |-> index_id_map]
    /\ local_cpu_index' = "None"
    /\ index_id_map' = "None"

\* except Exception as e: raise Exception(...) from e.  The frame is left, so
\* its locals are gone and nothing is returned.
ConvertExcept(e) ==
    /\ pc' = "convert_raised"
    /\ convert_error' = [raised |-> TRUE, type |-> "Exception",
                         message |-> ConversionMessage, cause |-> e]
    /\ cpu_build_index_output' = NoOutput
    /\ local_cpu_index' = "None"
    /\ index_id_map' = "None"

\* What a step that touches only the frame leaves alone.
frameRest == <<inputVars, builderVars, gpuVars, writeVars>>


----------------------------------------------------------------------------
(* cleanup() of the GPU build output *)

\* Releases the GPU index, and the IndexIDMap when the output still holds it.
GpuCleanup ==
    /\ faiss_gpu_build_index_output' =
           [faiss_gpu_build_index_output EXCEPT !.released = TRUE]
    /\ wrapper' =
           [wrapper EXCEPT !.released =
               @ \/ faiss_gpu_build_index_output.index_id_map = "index_id_map"]

\* A cleanup that raises has released nothing.
GpuCleanupRaises ==
    UNCHANGED <<faiss_gpu_build_index_output, wrapper>>

\* lines 91-94 and 126-129 are the same handler
Float_Except(e) == ConvertExcept(e)

Binary_Except(e) == ConvertExcept(e)

----------------------------------------------------------------------------
(* _do_convert_gpu_to_cpu_index: one step per statement of the try body *)

\* cpu_index = faiss.IndexHNSWCagra()
Float_Alloc ==
    /\ pc = "F64"
    /\ \/ /\ cpu_index' = [NoCpuIndex EXCEPT !.type = "IndexHNSWCagra"]
          /\ local_cpu_index' = "cpu_index"
          /\ pc' = "F67"
          /\ UNCHANGED <<index_id_map, cpu_build_index_output, convert_error, convert_raised>>
       \/ /\ \E e \in ExcTypes : convert_raised' = e /\ Float_Except(e)
          /\ UNCHANGED cpu_index
    /\ events' = Append(events, "alloc")
    /\ UNCHANGED frameRest

Float_SetEfConstructionMutant ==
    /\ pc = "F67"
    /\ \/ /\ cpu_index' = [cpu_index EXCEPT !.efConstruction = self.ef_search]
          /\ pc' = "F68"
          /\ UNCHANGED <<local_cpu_index, index_id_map, cpu_build_index_output,
                         convert_error, convert_raised>>
       \/ /\ \E e \in ExcTypes : convert_raised' = e /\ Float_Except(e)
          /\ UNCHANGED cpu_index
    /\ events' = Append(events, "efConstruction=")
    /\ UNCHANGED frameRest

\* cpu_index.hnsw.efConstruction = self.ef_construction
Float_SetEfConstruction ==
    /\ pc = "F67"
    /\ \/ /\ cpu_index' = [cpu_index EXCEPT !.efConstruction = self.ef_construction]
          /\ pc' = "F68"
          /\ UNCHANGED <<local_cpu_index, index_id_map, cpu_build_index_output,
                         convert_error, convert_raised>>
       \/ /\ \E e \in ExcTypes : convert_raised' = e /\ Float_Except(e)
          /\ UNCHANGED cpu_index
    /\ events' = Append(events, "efConstruction=")
    /\ UNCHANGED frameRest

\* cpu_index.hnsw.efSearch = self.ef_search
Float_SetEfSearch ==
    /\ pc = "F68"
    /\ \/ /\ cpu_index' = [cpu_index EXCEPT !.efSearch = self.ef_search]
          /\ pc' = "F69"
          /\ UNCHANGED <<local_cpu_index, index_id_map, cpu_build_index_output,
                         convert_error, convert_raised>>
       \/ /\ \E e \in ExcTypes : convert_raised' = e /\ Float_Except(e)
          /\ UNCHANGED cpu_index
    /\ events' = Append(events, "efSearch=")
    /\ UNCHANGED frameRest

\* cpu_index.base_level_only = self.base_level_only
Float_SetBaseLevelOnly ==
    /\ pc = "F69"
    /\ \/ /\ cpu_index' = [cpu_index EXCEPT !.base_level_only = self.base_level_only]
          /\ pc' = "F72"
          /\ UNCHANGED <<local_cpu_index, index_id_map, cpu_build_index_output,
                         convert_error, convert_raised>>
       \/ /\ \E e \in ExcTypes : convert_raised' = e /\ Float_Except(e)
          /\ UNCHANGED cpu_index
    /\ events' = Append(events, "base_level_only=")
    /\ UNCHANGED frameRest

Float_CopyToCleanupMutant ==
    /\ pc = "F72"
    /\ \/ /\ cpu_index' = [cpu_index EXCEPT !.copied = TRUE]
          /\ pc' = "F75"
          /\ events' = Append(events, "copyTo")
          /\ UNCHANGED <<local_cpu_index, index_id_map, cpu_build_index_output,
                         convert_error, convert_raised, gpuVars>>
       \/ /\ \E e \in ExcTypes : convert_raised' = e /\ Float_Except(e)
          /\ gpu_cleanup_calls' = gpu_cleanup_calls + 1
          /\ events' = Append(Append(events, "copyTo"), "gpu.cleanup")
          /\ GpuCleanup
          /\ UNCHANGED cpu_index
    /\ UNCHANGED <<inputVars, builderVars, writeVars>>

Float_CopyToMutant ==
    /\ pc = "F72"
    /\ wrapper' = [wrapper EXCEPT !.index = "None"]
    /\ \/ /\ cpu_index' = [cpu_index EXCEPT !.copied = TRUE]
          /\ pc' = "F75"
          /\ UNCHANGED <<local_cpu_index, index_id_map, cpu_build_index_output,
                         convert_error, convert_raised>>
       \/ /\ \E e \in ExcTypes : convert_raised' = e /\ Float_Except(e)
          /\ UNCHANGED cpu_index
    /\ events' = Append(events, "copyTo")
    /\ UNCHANGED <<inputVars, builderVars, writeVars,
                   faiss_gpu_build_index_output, gpu_cleanup_calls>>

\* faiss_gpu_build_index_output.gpu_index.copyTo(cpu_index): the library fills
\* the CPU index with the graph of the GPU index.
Float_CopyTo ==
    /\ pc = "F72"
    /\ \/ /\ cpu_index' = [cpu_index EXCEPT !.copied = TRUE]
          /\ pc' = "F75"
          /\ UNCHANGED <<local_cpu_index, index_id_map, cpu_build_index_output,
                         convert_error, convert_raised>>
       \/ /\ \E e \in ExcTypes : convert_raised' = e /\ Float_Except(e)
          /\ UNCHANGED cpu_index
    /\ events' = Append(events, "copyTo")
    /\ UNCHANGED frameRest

Float_ClearWrapperIndexMutant ==
    /\ pc = "F75"
    /\ \/ /\ faiss_gpu_build_index_output.index_id_map = "index_id_map"
          /\ pc' = "F78"
          /\ UNCHANGED <<local_cpu_index, index_id_map, cpu_build_index_output,
                         convert_error, convert_raised>>
       \/ \E e \in ExcTypes : convert_raised' = e /\ Float_Except(e)
    /\ events' = Append(events, "wrapper.index=None")
    /\ UNCHANGED <<inputVars, builderVars, writeVars, cpu_index, wrapper,
                   faiss_gpu_build_index_output, gpu_cleanup_calls>>

\* faiss_gpu_build_index_output.index_id_map.index = None
Float_ClearWrapperIndex ==
    /\ pc = "F75"
    /\ \/ /\ faiss_gpu_build_index_output.index_id_map = "index_id_map"
          /\ wrapper' = [wrapper EXCEPT !.index = "None"]
          /\ pc' = "F78"
          /\ UNCHANGED <<local_cpu_index, index_id_map, cpu_build_index_output,
                         convert_error, convert_raised>>
       \/ /\ \E e \in ExcTypes : convert_raised' = e /\ Float_Except(e)
          /\ UNCHANGED wrapper
    /\ events' = Append(events, "wrapper.index=None")
    /\ UNCHANGED <<inputVars, builderVars, writeVars, cpu_index,
                   faiss_gpu_build_index_output, gpu_cleanup_calls>>

\* index_id_map = faiss_gpu_build_index_output.index_id_map
Float_TakeWrapper ==
    /\ pc = "F78"
    /\ index_id_map' = faiss_gpu_build_index_output.index_id_map
    /\ pc' = "F81"
    /\ UNCHANGED <<frameRest, cpu_index, local_cpu_index,
                   cpu_build_index_output, convert_error, convert_raised, events>>

Float_ClearFieldMutant ==
    /\ pc = "F81"
    /\ pc' = "F83"
    /\ events' = Append(events, "gpu.index_id_map=None")
    /\ UNCHANGED <<inputVars, builderVars, writeVars, cpu_index, wrapper,
                   faiss_gpu_build_index_output,
                   gpu_cleanup_calls, local_cpu_index, index_id_map,
                   cpu_build_index_output, convert_error, convert_raised>>

\* faiss_gpu_build_index_output.index_id_map = None
Float_ClearField ==
    /\ pc = "F81"
    /\ faiss_gpu_build_index_output' =
           [faiss_gpu_build_index_output EXCEPT !.index_id_map = "None"]
    /\ pc' = "F83"
    /\ events' = Append(events, "gpu.index_id_map=None")
    /\ UNCHANGED <<inputVars, builderVars, writeVars, cpu_index, wrapper,
                   gpu_cleanup_calls, local_cpu_index, index_id_map,
                   cpu_build_index_output, convert_error, convert_raised>>

Float_SetWrapperIndexMutant ==
    /\ pc = "F83"
    /\ \/ /\ index_id_map = "index_id_map"
          /\ wrapper' = [wrapper EXCEPT
                             !.index = faiss_gpu_build_index_output.gpu_index]
          /\ pc' = "F86"
          /\ UNCHANGED <<local_cpu_index, index_id_map, cpu_build_index_output,
                         convert_error, convert_raised>>
       \/ /\ \E e \in ExcTypes : convert_raised' = e /\ Float_Except(e)
          /\ UNCHANGED wrapper
    /\ events' = Append(events, "wrapper.index=cpu_index")
    /\ UNCHANGED <<inputVars, builderVars, writeVars, cpu_index,
                   faiss_gpu_build_index_output, gpu_cleanup_calls>>

\* index_id_map.index = cpu_index
Float_SetWrapperIndex ==
    /\ pc = "F83"
    /\ \/ /\ index_id_map = "index_id_map"
          /\ wrapper' = [wrapper EXCEPT !.index = local_cpu_index]
          /\ pc' = "F86"
          /\ UNCHANGED <<local_cpu_index, index_id_map, cpu_build_index_output,
                         convert_error, convert_raised>>
       \/ /\ \E e \in ExcTypes : convert_raised' = e /\ Float_Except(e)
          /\ UNCHANGED wrapper
    /\ events' = Append(events, "wrapper.index=cpu_index")
    /\ UNCHANGED <<inputVars, builderVars, writeVars, cpu_index,
                   faiss_gpu_build_index_output, gpu_cleanup_calls>>

\* faiss_gpu_build_index_output.cleanup()
Float_Cleanup ==
    /\ pc = "F86"
    /\ gpu_cleanup_calls' = gpu_cleanup_calls + 1
    /\ events' = Append(events, "gpu.cleanup")
    /\ \/ /\ GpuCleanup
          /\ pc' = "F88"
          /\ UNCHANGED <<local_cpu_index, index_id_map, cpu_build_index_output,
                         convert_error, convert_raised>>
       \/ /\ \E e \in ExcTypes : convert_raised' = e /\ Float_Except(e)
          /\ GpuCleanupRaises
    /\ UNCHANGED <<inputVars, builderVars, writeVars, cpu_index>>

Float_ReturnMutant ==
    /\ pc = "F88"
    /\ cpu_build_index_output' =
           [cpu_index |-> local_cpu_index, index_id_map |-> "new_index_id_map"]
    /\ local_cpu_index' = "None"
    /\ index_id_map' = "None"
    /\ pc' = "convert_returned"
    /\ UNCHANGED <<frameRest, cpu_index, convert_error, convert_raised, events>>

\* return FaissCpuBuildIndexOutput(cpu_index=cpu_index, index_id_map=index_id_map)
Float_Return ==
    /\ pc = "F88"
    /\ cpu_build_index_output' =
           [cpu_index |-> local_cpu_index, index_id_map |-> index_id_map]
    /\ local_cpu_index' = "None"
    /\ index_id_map' = "None"
    /\ pc' = "convert_returned"
    /\ UNCHANGED <<frameRest, cpu_index, convert_error, convert_raised, events>>

----------------------------------------------------------------------------
(* _do_convert_gpu_to_cpu_binary_index: one step per statement of the try body *)

\* cpu_index = faiss.IndexBinaryHNSWCagra()
Binary_Alloc ==
    /\ pc = "B101"
    /\ \/ /\ cpu_index' = [NoCpuIndex EXCEPT !.type = "IndexBinaryHNSWCagra"]
          /\ local_cpu_index' = "cpu_index"
          /\ pc' = "B102"
          /\ UNCHANGED <<index_id_map, cpu_build_index_output, convert_error, convert_raised>>
       \/ /\ \E e \in ExcTypes : convert_raised' = e /\ Binary_Except(e)
          /\ UNCHANGED cpu_index
    /\ events' = Append(events, "alloc")
    /\ UNCHANGED frameRest


\* cpu_index.hnsw.efConstruction = self.ef_construction
Binary_SetEfConstruction ==
    /\ pc = "B102"
    /\ \/ /\ cpu_index' = [cpu_index EXCEPT !.efConstruction = self.ef_construction]
          /\ pc' = "B103"
          /\ UNCHANGED <<local_cpu_index, index_id_map, cpu_build_index_output,
                         convert_error, convert_raised>>
       \/ /\ \E e \in ExcTypes : convert_raised' = e /\ Binary_Except(e)
          /\ UNCHANGED cpu_index
    /\ events' = Append(events, "efConstruction=")
    /\ UNCHANGED frameRest

\* cpu_index.hnsw.efSearch = self.ef_search
Binary_SetEfSearch ==
    /\ pc = "B103"
    /\ \/ /\ cpu_index' = [cpu_index EXCEPT !.efSearch = self.ef_search]
          /\ pc' = "B104"
          /\ UNCHANGED <<local_cpu_index, index_id_map, cpu_build_index_output,
                         convert_error, convert_raised>>
       \/ /\ \E e \in ExcTypes : convert_raised' = e /\ Binary_Except(e)
          /\ UNCHANGED cpu_index
    /\ events' = Append(events, "efSearch=")
    /\ UNCHANGED frameRest

\* cpu_index.base_level_only = self.base_level_only
Binary_SetBaseLevelOnly ==
    /\ pc = "B104"
    /\ \/ /\ cpu_index' = [cpu_index EXCEPT !.base_level_only = self.base_level_only]
          /\ pc' = "B107"
          /\ UNCHANGED <<local_cpu_index, index_id_map, cpu_build_index_output,
                         convert_error, convert_raised>>
       \/ /\ \E e \in ExcTypes : convert_raised' = e /\ Binary_Except(e)
          /\ UNCHANGED cpu_index
    /\ events' = Append(events, "base_level_only=")
    /\ UNCHANGED frameRest

\* faiss_gpu_build_index_output.gpu_index.copyTo(cpu_index): the library fills
\* the CPU index with the graph of the GPU index.
Binary_CopyTo ==
    /\ pc = "B107"
    /\ \/ /\ cpu_index' = [cpu_index EXCEPT !.copied = TRUE]
          /\ pc' = "B110"
          /\ UNCHANGED <<local_cpu_index, index_id_map, cpu_build_index_output,
                         convert_error, convert_raised>>
       \/ /\ \E e \in ExcTypes : convert_raised' = e /\ Binary_Except(e)
          /\ UNCHANGED cpu_index
    /\ events' = Append(events, "copyTo")
    /\ UNCHANGED frameRest

\* faiss_gpu_build_index_output.index_id_map.index = None
Binary_ClearWrapperIndex ==
    /\ pc = "B110"
    /\ \/ /\ faiss_gpu_build_index_output.index_id_map = "index_id_map"
          /\ wrapper' = [wrapper EXCEPT !.index = "None"]
          /\ pc' = "B113"
          /\ UNCHANGED <<local_cpu_index, index_id_map, cpu_build_index_output,
                         convert_error, convert_raised>>
       \/ /\ \E e \in ExcTypes : convert_raised' = e /\ Binary_Except(e)
          /\ UNCHANGED wrapper
    /\ events' = Append(events, "wrapper.index=None")
    /\ UNCHANGED <<inputVars, builderVars, writeVars, cpu_index,
                   faiss_gpu_build_index_output, gpu_cleanup_calls>>

\* index_id_map = faiss_gpu_build_index_output.index_id_map
Binary_TakeWrapper ==
    /\ pc = "B113"
    /\ index_id_map' = faiss_gpu_build_index_output.index_id_map
    /\ pc' = "B116"
    /\ UNCHANGED <<frameRest, cpu_index, local_cpu_index,
                   cpu_build_index_output, convert_error, convert_raised, events>>


\* faiss_gpu_build_index_output.index_id_map = None
Binary_ClearField ==
    /\ pc = "B116"
    /\ faiss_gpu_build_index_output' =
           [faiss_gpu_build_index_output EXCEPT !.index_id_map = "None"]
    /\ pc' = "B118"
    /\ events' = Append(events, "gpu.index_id_map=None")
    /\ UNCHANGED <<inputVars, builderVars, writeVars, cpu_index, wrapper,
                   gpu_cleanup_calls, local_cpu_index, index_id_map,
                   cpu_build_index_output, convert_error, convert_raised>>

\* index_id_map.index = cpu_index
Binary_SetWrapperIndex ==
    /\ pc = "B118"
    /\ \/ /\ index_id_map = "index_id_map"
          /\ wrapper' = [wrapper EXCEPT !.index = local_cpu_index]
          /\ pc' = "B121"
          /\ UNCHANGED <<local_cpu_index, index_id_map, cpu_build_index_output,
                         convert_error, convert_raised>>
       \/ /\ \E e \in ExcTypes : convert_raised' = e /\ Binary_Except(e)
          /\ UNCHANGED wrapper
    /\ events' = Append(events, "wrapper.index=cpu_index")
    /\ UNCHANGED <<inputVars, builderVars, writeVars, cpu_index,
                   faiss_gpu_build_index_output, gpu_cleanup_calls>>

\* faiss_gpu_build_index_output.cleanup()
Binary_Cleanup ==
    /\ pc = "B121"
    /\ gpu_cleanup_calls' = gpu_cleanup_calls + 1
    /\ events' = Append(events, "gpu.cleanup")
    /\ \/ /\ GpuCleanup
          /\ pc' = "B123"
          /\ UNCHANGED <<local_cpu_index, index_id_map, cpu_build_index_output,
                         convert_error, convert_raised>>
       \/ /\ \E e \in ExcTypes : convert_raised' = e /\ Binary_Except(e)
          /\ GpuCleanupRaises
    /\ UNCHANGED <<inputVars, builderVars, writeVars, cpu_index>>

\* return FaissCpuBuildIndexOutput(cpu_index=cpu_index, index_id_map=index_id_map)
Binary_Return ==
    /\ pc = "B123"
    /\ cpu_build_index_output' =
           [cpu_index |-> local_cpu_index, index_id_map |-> index_id_map]
    /\ local_cpu_index' = "None"
    /\ index_id_map' = "None"
    /\ pc' = "convert_returned"
    /\ UNCHANGED <<frameRest, cpu_index, convert_error, convert_raised, events>>


----------------------------------------------------------------------------
(* write_cpu_index *)

CallWriteMutant ==
    /\ pc = "convert_returned"
    /\ pc' = "W181"
    /\ UNCHANGED <<inputVars, builderVars, gpuVars, writeVars, cpu_index,
                   local_cpu_index, index_id_map, cpu_build_index_output,
                   convert_error, convert_raised, events>>

\* The caller hands the output of a successful conversion to write_cpu_index.
CallWrite ==
    /\ pc = "convert_returned"
    /\ pc' = "W172"
    /\ UNCHANGED <<inputVars, builderVars, gpuVars, writeVars, cpu_index,
                   local_cpu_index, index_id_map, cpu_build_index_output,
                   convert_error, convert_raised, events>>

\* isinstance(e, IOError)
IsIOError(e) == e \in {"IOError", "FileNotFoundError"}

IOMessage == "Failed to write index to file"

UnexpectedMessage == "Unexpected error while writing index to file"

WriteExceptMutant(e) ==
    /\ pc' = "write_returned"
    /\ write_error' = NoError

\* except IOError as io_error: raise Exception(...) from io_error
\* except Exception as e: raise Exception(...) from e
WriteExcept(e) ==
    /\ pc' = "write_raised"
    /\ write_error' = [raised |-> TRUE, type |-> "Exception",
                       message |-> IF IsIOError(e) THEN IOMessage
                                   ELSE UnexpectedMessage,
                       cause |-> e]

UsesStandardWriterMutant(b) == TRUE

\* `self.vector_dtype != DataType.BINARY` of write_cpu_index
UsesStandardWriter(b) == b.vector_dtype # "BINARY"

\* What a faiss writer leaves at the path: the IndexIDMap with the index it
\* references, in the writer's format.
Written(format) ==
    [written |-> TRUE, format |-> format, index |-> wrapper.index,
     ids |-> wrapper.ids]

\* faiss.write_index(cpu_build_index_output.index_id_map, cpu_index_output_file_path)
Write_index ==
    /\ pc = "W172"
    /\ UsesStandardWriter(self)
    /\ events' = Append(events, "write_index")
    /\ \/ /\ Writable(cpu_index_output_file_path)
          /\ file' = Written("standard")
          /\ pc' = "W181"
          /\ UNCHANGED <<write_error, writer_raised>>
       \/ /\ \E e \in ExcTypes : writer_raised' = e /\ WriteExcept(e)
          /\ UNCHANGED file
    /\ UNCHANGED <<inputVars, builderVars, gpuVars, cpu_index, local_cpu_index,
                   index_id_map, cpu_build_index_output, convert_error,
                   convert_raised, cpu_cleanup_calls, cpu_cleanup_raised>>

\* faiss.write_index_binary(cpu_build_index_output.index_id_map, cpu_index_output_file_path)
Write_index_binary ==
    /\ pc = "W172"
    /\ ~UsesStandardWriter(self)
    /\ events' = Append(events, "write_index_binary")
    /\ \/ /\ Writable(cpu_index_output_file_path)
          /\ file' = Written("binary")
          /\ pc' = "W181"
          /\ UNCHANGED <<write_error, writer_raised>>
       \/ /\ \E e \in ExcTypes : writer_raised' = e /\ WriteExcept(e)
          /\ UNCHANGED file
    /\ UNCHANGED <<inputVars, builderVars, gpuVars, cpu_index, local_cpu_index,
                   index_id_map, cpu_build_index_output, convert_error,
                   convert_raised, cpu_cleanup_calls, cpu_cleanup_raised>>

Write_CleanupSwallowMutant ==
    /\ pc = "W181"
    /\ cpu_cleanup_calls' = cpu_cleanup_calls + 1
    /\ events' = Append(events, "cpu.cleanup")
    /\ pc' = "write_returned"
    /\ \/ UNCHANGED cpu_cleanup_raised
       \/ \E e \in ExcTypes : cpu_cleanup_raised' = e
    /\ UNCHANGED <<inputVars, builderVars, gpuVars, cpu_index, local_cpu_index,
                   index_id_map, cpu_build_index_output, convert_error,
                   convert_raised, writer_raised, file, write_error>>

Write_CleanupMutant ==
    /\ pc = "W181"
    /\ events' = Append(events, "cpu.cleanup")
    /\ \/ /\ pc' = "write_returned"
          /\ cpu_cleanup_calls' = cpu_cleanup_calls + 1
          /\ UNCHANGED <<write_error, cpu_cleanup_raised>>
       \/ /\ \E e \in ExcTypes : cpu_cleanup_raised' = e /\ WriteExcept(e)
          /\ cpu_cleanup_calls' = cpu_cleanup_calls + 2
    /\ UNCHANGED <<inputVars, builderVars, gpuVars, cpu_index, local_cpu_index,
                   index_id_map, cpu_build_index_output, convert_error,
                   convert_raised, writer_raised, file>>

\* cpu_build_index_output.cleanup()
Write_Cleanup ==
    /\ pc = "W181"
    /\ cpu_cleanup_calls' = cpu_cleanup_calls + 1
    /\ events' = Append(events, "cpu.cleanup")
    /\ \/ /\ pc' = "write_returned"
          /\ UNCHANGED <<write_error, cpu_cleanup_raised>>
       \/ \E e \in ExcTypes : cpu_cleanup_raised' = e /\ WriteExcept(e)
    /\ UNCHANGED <<inputVars, builderVars, gpuVars, cpu_index, local_cpu_index,
                   index_id_map, cpu_build_index_output, convert_error,
                   convert_raised, writer_raised, file>>

----------------------------------------------------------------------------
(* Specification *)

Next ==
    \/ FromDict
    \/ Dispatch
    \/ Float_Alloc
    \/ Float_SetEfConstruction
    \/ Float_SetEfSearch
    \/ Float_SetBaseLevelOnly
    \/ Float_CopyTo
    \/ Float_ClearWrapperIndex
    \/ Float_TakeWrapper
    \/ Float_ClearField
    \/ Float_SetWrapperIndex
    \/ Float_Cleanup
    \/ Float_Return
    \/ Binary_Alloc
    \/ Binary_SetEfConstruction
    \/ Binary_SetEfSearch
    \/ Binary_SetBaseLevelOnly
    \/ Binary_CopyTo
    \/ Binary_ClearWrapperIndex
    \/ Binary_TakeWrapper
    \/ Binary_ClearField
    \/ Binary_SetWrapperIndex
    \/ Binary_Cleanup
    \/ Binary_Return
    \/ CallWrite
    \/ Write_index
    \/ Write_index_binary
    \/ Write_Cleanup

Spec == Init /\ [][Next]_vars


----------------------------------------------------------------------------
(* Properties *)

InEvents(x) == \E i \in 1..Len(events) : events[i] = x

Count(x) == Cardinality({i \in 1..Len(events) : events[i] = x})

Position(x) == CHOOSE i \in 1..Len(events) : events[i] = x

LastEvent == events[Len(events)]

ConvertSucceeded == pc \in {"convert_returned", "W172", "W181",
                            "write_returned", "write_raised"}

WriteExited == pc \in {"write_returned", "write_raised"}

\* C1: every call of write_cpu_index, whether the faiss writer succeeds or
\* raises, has called cleanup on the CPU build output exactly once when it
\* returns or propagates its error.
C1_CleanupOnEveryWrite == WriteExited => cpu_cleanup_calls = 1

\* C2: after a successful conversion the returned output's IndexIDMap
\* references the new CPU index, which is the output's cpu_index, and the GPU
\* build output's index_id_map field is None.
C2_OwnershipExclusivity ==
    ConvertSucceeded =>
        /\ cpu_build_index_output.index_id_map = "index_id_map"
        /\ cpu_build_index_output.cpu_index = "cpu_index"
        /\ wrapper.index = cpu_build_index_output.cpu_index
        /\ cpu_index.type # "None"
        /\ faiss_gpu_build_index_output.index_id_map = "None"

C2_Witness ==
    /\ pc = "convert_returned"
    /\ self.vector_dtype = "BINARY"
    /\ wrapper.index = "cpu_index"
    /\ cpu_index.copied

\* C3: whatever a statement of the try body raises is re-raised as an
\* Exception whose cause is what was raised, and then no CPU build output is
\* returned.
C3_ConversionErrorWraps ==
    convert_raised # "None" =>
        /\ pc = "convert_raised"
        /\ convert_error.raised
        /\ convert_error.type = "Exception"
        /\ convert_error.message = "Failed to convert GPU index to CPU index"
        /\ convert_error.cause = convert_raised
        /\ cpu_build_index_output = NoOutput

C3_Witness ==
    /\ pc = "convert_raised"
    /\ convert_raised = "RuntimeError"
    /\ LastEvent = "gpu.cleanup"
    /\ cpu_index.copied

GpuOutputAsOnEntry ==
    /\ faiss_gpu_build_index_output.index_id_map = "index_id_map"
    /\ wrapper.index = "gpu_index"

\* C4 as stated: whenever convert fails, the GPU build output's index_id_map
\* field still holds the IndexIDMap and the IndexIDMap still references the
\* GPU index.
C4_NoPartialMutation == pc = "convert_raised" => GpuOutputAsOnEntry

BeforeRelocation ==
    {"alloc", "efConstruction=", "efSearch=", "base_level_only=", "copyTo"}

\* C4 amended: a conversion that fails at allocation, configuration or
\* copyTo leaves the GPU build output as on entry; one that fails at
\* `index_id_map.index = cpu_index` or at cleanup() leaves the index_id_map
\* field None and the IndexIDMap no longer referencing the GPU index.
C4_MutationOnlyAfterCopy ==
    pc = "convert_raised" =>
        /\ LastEvent \in BeforeRelocation => GpuOutputAsOnEntry
        /\ LastEvent \in {"wrapper.index=cpu_index", "gpu.cleanup"} =>
               /\ faiss_gpu_build_index_output.index_id_map = "None"
               /\ wrapper.index # "gpu_index"

C4_Witness ==
    /\ pc = "convert_raised"
    /\ LastEvent = "copyTo"
    /\ GpuOutputAsOnEntry

\* C5: when the faiss writer raises, write_cpu_index raises an Exception whose
\* cause is what the writer raised, with the I/O message exactly when that is
\* an IOError, and does not return normally.
C5_SerializationErrorWraps ==
    writer_raised # "None" =>
        /\ pc = "write_raised"
        /\ write_error.raised
        /\ write_error.type = "Exception"
        /\ write_error.cause = writer_raised
        /\ (write_error.message = "Failed to write index to file")
               = (writer_raised \in {"IOError", "FileNotFoundError"})
        /\ (write_error.message = "Unexpected error while writing index to file")
               = (writer_raised = "RuntimeError")

C5_Witness ==
    /\ pc = "write_raised"
    /\ writer_raised = "FileNotFoundError"
    /\ ~Writable(cpu_index_output_file_path)
    /\ write_error.message = "Failed to write index to file"

\* C6: a FLOAT builder allocates an IndexHNSWCagra and writes with
\* write_index, a BINARY builder allocates an IndexBinaryHNSWCagra and writes
\* with write_index_binary, so the writer always matches the index family.
C6_DtypeDispatch ==
    /\ cpu_index.type # "None" =>
           cpu_index.type = IF self.vector_dtype = "FLOAT"
                            THEN "IndexHNSWCagra" ELSE "IndexBinaryHNSWCagra"
    /\ InEvents("write_index") =>
           /\ self.vector_dtype = "FLOAT"
           /\ cpu_index.type = "IndexHNSWCagra"
           /\ ~InEvents("write_index_binary")
    /\ InEvents("write_index_binary") =>
           /\ self.vector_dtype = "BINARY"
           /\ cpu_index.type = "IndexBinaryHNSWCagra"
           /\ ~InEvents("write_index")
    /\ file.written =>
           file.format = IF cpu_index.type = "IndexHNSWCagra"
                         THEN "standard" ELSE "binary"

C6_Witness ==
    /\ file.written
    /\ file.format = "binary"
    /\ self.vector_dtype = "BINARY"
    /\ cpu_index.type = "IndexBinaryHNSWCagra"

\* C7: the CPU index of a successful conversion has efSearch, efConstruction
\* and base_level_only equal to the builder's values; each is written once,
\* before copyTo.
C7_ParameterPropagation ==
    ConvertSucceeded =>
        /\ cpu_index.efSearch = self.ef_search
        /\ cpu_index.efConstruction = self.ef_construction
        /\ cpu_index.base_level_only = self.base_level_only
        /\ \A x \in {"efSearch=", "efConstruction=", "base_level_only="} :
               /\ Count(x) = 1
               /\ Position(x) < Position("copyTo")
        /\ Count("copyTo") = 1

C7_Witness ==
    /\ pc = "convert_returned"
    /\ self.vector_dtype = "BINARY"
    /\ self.ef_search = 1
    /\ self.ef_construction = 2
    /\ ~self.base_level_only
    /\ cpu_index.efSearch = 1
    /\ cpu_index.efConstruction = 2

EmptyParams == [NoneParams EXCEPT !.isNone = FALSE]

\* C8: from_dict(None) and from_dict({}) both give ef_search = 100,
\* ef_construction = 100, base_level_only = True, vector_dtype = FLOAT.
C8_DefaultConstruction ==
    (pc # "from_dict" /\ params \in {NoneParams, EmptyParams}) =>
        /\ construct_error = "None"
        /\ self.ef_search = 100
        /\ self.ef_construction = 100
        /\ self.base_level_only = TRUE
        /\ self.vector_dtype = "FLOAT"

C8_Witness ==
    /\ pc = "convert"
    /\ params = EmptyParams
    /\ self.ef_search = 100

\* C9: from_dict on a non-empty mapping gives every field whose key is
\* present the supplied value and every other field its default, and fails
\* when the mapping has a key that is not one of the four fields.
C9_FromDictMapping ==
    (pc # "from_dict" /\ ~params.isNone /\ params.keys # {}) =>
        IF params.keys \subseteq
               {"ef_search", "ef_construction", "base_level_only", "vector_dtype"}
        THEN /\ construct_error = "None"
             /\ self.ef_search = IF "ef_search" \in params.keys
                                 THEN params.vals.ef_search ELSE 100
             /\ self.ef_construction = IF "ef_construction" \in params.keys
                                       THEN params.vals.ef_construction ELSE 100
             /\ self.base_level_only = IF "base_level_only" \in params.keys
                                       THEN params.vals.base_level_only ELSE TRUE
             /\ self.vector_dtype = IF "vector_dtype" \in params.keys
                                    THEN params.vals.vector_dtype ELSE "FLOAT"
        ELSE /\ construct_error = "TypeError"
             /\ pc = "construct_raised"
             /\ self = NoBuilder

C9_Witness ==
    /\ pc = "construct_raised"
    /\ params.keys = {"ef_search", "unknown_key"}
    /\ construct_error = "TypeError"

\* C10: in a run of convert followed by write, cleanup is called at most once
\* on the GPU build output and at most once on the CPU build output.
C10_CleanupAtMostOnce ==
    /\ gpu_cleanup_calls <= 1
    /\ cpu_cleanup_calls <= 1
    /\ Count("gpu.cleanup") = gpu_cleanup_calls
    /\ Count("cpu.cleanup") <= 1

C10_Witness ==
    /\ pc = "write_raised"
    /\ gpu_cleanup_calls = 1
    /\ cpu_cleanup_calls = 1
    /\ cpu_cleanup_raised # "None"


Before(x, y) == InEvents(x) /\ InEvents(y) /\ Position(x) < Position(y)

\* C11: in both bodies the IndexIDMap's reference to the GPU index is set to
\* None first, then the IndexIDMap is taken out of the GPU build output's
\* field, then its reference is set to the new CPU index.
C11_RelocationOrder ==
    /\ InEvents("gpu.index_id_map=None") =>
           Before("wrapper.index=None", "gpu.index_id_map=None")
    /\ InEvents("wrapper.index=cpu_index") =>
           Before("gpu.index_id_map=None", "wrapper.index=cpu_index")
    /\ faiss_gpu_build_index_output.index_id_map = "None" =>
           wrapper.index # "gpu_index"
    /\ pc \in {"F83", "B118"} =>
           /\ wrapper.index = "None"
           /\ faiss_gpu_build_index_output.index_id_map = "None"
    /\ wrapper.index = "cpu_index" =>
           faiss_gpu_build_index_output.index_id_map = "None"

C11_Witness ==
    /\ pc = "B121"
    /\ events[Len(events) - 2] = "wrapper.index=None"
    /\ events[Len(events) - 1] = "gpu.index_id_map=None"
    /\ events[Len(events)] = "wrapper.index=cpu_index"
    /\ wrapper.index = "cpu_index"

\* C12: the IndexIDMap references one of the GPU index, nothing and the CPU
\* index; once it no longer references the GPU index it never references it
\* again; when cleanup of the GPU build output has been called it does not
\* reference the GPU index.
C12_SingleReference ==
    /\ [](/\ wrapper.index \in {"gpu_index", "None", "cpu_index"}
          /\ InEvents("gpu.cleanup") => wrapper.index # "gpu_index"
          /\ pc \in {"F86", "B121"} => wrapper.index = "cpu_index")
    /\ [][wrapper.index # "gpu_index" => wrapper'.index # "gpu_index"]_vars

C12_Witness ==
    /\ InEvents("gpu.cleanup")
    /\ InEvents("wrapper.index=None")
    /\ wrapper.index = "cpu_index"
    /\ pc = "F88"


\* The calls of a try body of convert that precede cleanup(), in order.
ConvertSteps ==
    <<"alloc", "efConstruction=", "efSearch=", "base_level_only=", "copyTo",
      "wrapper.index=None", "gpu.index_id_map=None", "wrapper.index=cpu_index">>

\* C13: convert calls cleanup on the GPU build output only after allocation,
\* configuration, copyTo and relocation have all completed, and then always;
\* when an earlier step raises it is never called.  When it is called the
\* index_id_map field is None, so it does not release the IndexIDMap.
C13_GpuCleanupAfterRelocation ==
    /\ InEvents("gpu.cleanup") =>
           /\ cpu_index.copied
           /\ wrapper.index = "cpu_index"
           /\ faiss_gpu_build_index_output.index_id_map = "None"
           /\ Len(events) > Len(ConvertSteps)
           /\ SubSeq(events, 1, Len(ConvertSteps)) = ConvertSteps
           /\ events[Len(ConvertSteps) + 1] = "gpu.cleanup"
    /\ ~InEvents("gpu.cleanup") =>
           /\ gpu_cleanup_calls = 0
           /\ ~faiss_gpu_build_index_output.released
    /\ (pc = "convert_raised" /\ Len(events) <= Len(ConvertSteps)) =>
           gpu_cleanup_calls = 0
    /\ (pc \in {"F88", "B123"} \/ ConvertSucceeded) =>
           /\ gpu_cleanup_calls = 1
           /\ faiss_gpu_build_index_output.released
    /\ ~wrapper.released

C13_Witness ==
    /\ pc = "B123"
    /\ gpu_cleanup_calls = 1
    /\ faiss_gpu_build_index_output.released
    /\ ~wrapper.released

Writers == {"write_index", "write_index_binary"}

\* C14: copyTo precedes the relocation, which precedes cleanup of the GPU
\* build output, which precedes the write attempt, which precedes cleanup of
\* the CPU build output; the CPU cleanup is never called before a writer was
\* called and no writer is called after the CPU cleanup.
C14_PipelineOrder ==
    /\ InEvents("wrapper.index=None") =>
           Before("copyTo", "wrapper.index=None")
    /\ InEvents("gpu.cleanup") =>
           Before("wrapper.index=cpu_index", "gpu.cleanup")
    /\ \A w \in Writers :
           InEvents(w) =>
               /\ Before("gpu.cleanup", w)
               /\ Count(w) = 1
               /\ InEvents("cpu.cleanup") => Before(w, "cpu.cleanup")
    /\ InEvents("cpu.cleanup") =>
           /\ \E w \in Writers : Before(w, "cpu.cleanup")
           /\ LastEvent = "cpu.cleanup"
    /\ (cpu_cleanup_calls > 0) = InEvents("cpu.cleanup")

C14_Witness ==
    /\ pc = "write_returned"
    /\ Before("copyTo", "wrapper.index=None")
    /\ Before("gpu.cleanup", "write_index_binary")
    /\ LastEvent = "cpu.cleanup"

\* C15: the IndexIDMap of the output a successful conversion returns is the
\* object the GPU build output held on entry, with the same ids; the only
\* field of it that changes is its index reference.
C15_WrapperReused ==
    /\ [](/\ wrapper.ids = <<1, 2, 3>>
          /\ pc = "from_dict" =>
                 faiss_gpu_build_index_output.index_id_map = "index_id_map"
          /\ ConvertSucceeded =>
                 /\ cpu_build_index_output.index_id_map = "index_id_map"
                 /\ ~wrapper.released)
    /\ [][wrapper' = [wrapper EXCEPT !.index = wrapper'.index]]_vars

C15_Witness ==
    /\ pc = "convert_returned"
    /\ cpu_build_index_output.index_id_map = "index_id_map"
    /\ wrapper.ids = <<1, 2, 3>>
    /\ wrapper.index = "cpu_index"
    /\ self.vector_dtype = "FLOAT"

\* C16: write_cpu_index returns normally only when the writer and the cleanup
\* of the CPU build output both completed; when the cleanup raises after a
\* successful write, write_cpu_index raises an Exception whose cause is what
\* the cleanup raised, the file is written, and cleanup was called once.
C16_CleanupFailureWraps ==
    /\ pc = "write_returned" =>
           /\ writer_raised = "None"
           /\ cpu_cleanup_raised = "None"
           /\ ~write_error.raised
           /\ file.written
           /\ cpu_cleanup_calls = 1
    /\ cpu_cleanup_raised # "None" =>
           /\ pc = "write_raised"
           /\ writer_raised = "None"
           /\ write_error.raised
           /\ write_error.type = "Exception"
           /\ write_error.cause = cpu_cleanup_raised
           /\ file.written
           /\ cpu_cleanup_calls = 1
           /\ Count("cpu.cleanup") = 1

C16_Witness ==
    /\ pc = "write_raised"
    /\ cpu_cleanup_raised = "RuntimeError"
    /\ write_error.cause = "RuntimeError"
    /\ file.written

====
